---- MODULE Spec2Model ----
(***************************************************************************)
(* Model of src/app.py: a Streamlit dashboard script over a table of       *)
(* German rental listings.  The script is re-executed top to bottom on     *)
(* every user interaction; load_data is memoized by st.cache_data.         *)
(*                                                                         *)
(* Floating point cells are modelled as extended rationals                 *)
(* [k, n, d]: k = "num" (the rational n/d, d > 0, in lowest terms),        *)
(* k = "inf" (n = 1 or -1 gives the sign) or k = "nan".                    *)
(***************************************************************************)
EXTENDS Integers, Sequences, FiniteSets, TLC

VARIABLES
    remote,            \* what the fixed URL serves: [columns, rows]
    observed,          \* the dataframe library's default for groupby(observed=)
    cache,             \* st.cache_data entry of load_data: [full, value]
    pc,                \* position of the script run
    outcome,           \* how the load of this run ended
    attempts,          \* network fetches performed by this run
    df,                \* the script's df (line 42)
    states,            \* options of the state selectbox (line 52)
    segments,          \* options of the segment selectbox (line 56)
    selected_state,    \* widget value (line 53)
    selected_segment,  \* widget value (line 57)
    filtered_df,       \* lines 60-64
    metrics,           \* lines 70-83
    segment_data,      \* lines 92-97
    sample_size,       \* line 116
    amenity_results,   \* lines 153-167
    rendered,          \* UI elements emitted by this run, in order
    raised,            \* uncaught exception of this run, "none" if none
    loaded             \* history: load_data has returned in this process

vars == <<remote, observed, cache, pc, outcome, attempts, df, states, segments,
          selected_state, selected_segment, filtered_df, metrics, segment_data,
          sample_size, amenity_results, rendered, raised, loaded>>

-----------------------------------------------------------------------------
(* Bounds of the model *)

MaxRows == 2

-----------------------------------------------------------------------------
(* Floating point values *)

Abs(x) == IF x < 0 THEN -x ELSE x

RECURSIVE GCD(_, _)
GCD(a, b) == IF b = 0 THEN a ELSE GCD(b, a % b)

NaN == [k |-> "nan", n |-> 0, d |-> 1]
PosInf == [k |-> "inf", n |-> 1, d |-> 1]
NegInf == [k |-> "inf", n |-> -1, d |-> 1]

\* the rational n/d (d # 0) in lowest terms with a positive denominator
Frac(n, d) ==
    LET s == IF d < 0 THEN -1 ELSE 1
        g == GCD(Abs(n), Abs(d))
    IN  [k |-> "num", n |-> (s * n) \div g, d |-> (s * d) \div g]

Num(i) == [k |-> "num", n |-> i, d |-> 1]

IsNaN(x) == x.k = "nan"
IsNum(x) == x.k = "num"

\* a <= b on floats: every comparison with NaN is False
Leq(a, b) ==
    CASE IsNaN(a) \/ IsNaN(b) -> FALSE
      [] a.k = "inf" /\ b.k = "inf" -> a.n <= b.n
      [] a.k = "inf" -> a.n < 0
      [] b.k = "inf" -> b.n > 0
      [] OTHER -> a.n * b.d <= b.n * a.d

Lt(a, b) == Leq(a, b) /\ ~Leq(b, a)

\* a + b on floats
FAdd(a, b) ==
    CASE IsNaN(a) \/ IsNaN(b) -> NaN
      [] a.k = "inf" /\ b.k = "inf" -> IF a.n = b.n THEN a ELSE NaN
      [] a.k = "inf" -> a
      [] b.k = "inf" -> b
      [] OTHER -> Frac(a.n * b.d + b.n * a.d, a.d * b.d)

\* a / b on float columns: x/0 is +-inf, 0/0 is NaN, nothing raises
FDiv(a, b) ==
    CASE IsNaN(a) \/ IsNaN(b) -> NaN
      [] a.k = "inf" /\ b.k = "inf" -> NaN
      [] a.k = "inf" -> IF b.n < 0 THEN [a EXCEPT !.n = -a.n] ELSE a
      [] b.k = "inf" -> Num(0)
      [] b.n = 0 -> IF a.n = 0 THEN NaN ELSE IF a.n > 0 THEN PosInf ELSE NegInf
      [] OTHER -> Frac(a.n * b.d, a.d * b.n)

RECURSIVE FSum(_)
FSum(s) == IF s = <<>> THEN Num(0) ELSE FAdd(Head(s), FSum(Tail(s)))

NotNaN(x) == ~IsNaN(x)

\* Series.mean(): NaN entries are skipped, infinities are not; NaN when
\* nothing is left
Mean(s) ==
    LET kept == SelectSeq(s, NotNaN)
    IN  IF kept = <<>> THEN NaN ELSE FDiv(FSum(kept), Num(Len(kept)))

\* round(1): to one decimal, ties to even
Round1(x) ==
    IF ~IsNum(x) THEN x
    ELSE LET t == 10 * x.n
             q == t \div x.d
             r == t % x.d
             up == 2 * r > x.d \/ (2 * r = x.d /\ q % 2 = 1)
         IN  Frac(IF up THEN q + 1 ELSE q, 10)

-----------------------------------------------------------------------------
(* Tables *)

Column(t, c) == [i \in 1..Len(t) |-> t[i][c]]

NaNCat == "nan"

Labels == <<"Budget", "Economy", "Mid-Range", "Premium">>
Bins == <<0, 500, 1000, 1500, 3000>>

RentCeiling == 3000
SampleCap == 1000

Regions == {"Bayern", "Berlin"}
RegionRank == [r \in Regions |-> IF r = "Bayern" THEN 1 ELSE 2]
CategoryRank(c) == CHOOSE i \in 1..Len(Labels) : Labels[i] = c

\* values of the served CSV's cells: one family of payloads per concern
FlowRents == {Num(0), Num(400), Num(1200), Num(2000), Num(3500)}
FlowSpaces == {Num(40)}
BinRents == {Num(-100), Num(0), Num(400), Num(500), Num(750), Num(1000), Num(1500),
             Num(1501), Num(3000), Num(3001), NaN}
RatioRents == {Num(0), Num(400), Num(1200)}
RatioSpaces == {Num(0), Num(40), Num(60), NaN}

RequiredColumns == {"regio1", "totalRent", "livingSpace"}
Amenities == <<"balcony", "hasKitchen", "lift", "garden", "cellar">>
AllColumns == RequiredColumns \cup {"balcony"}
ColumnSets == {AllColumns} \cup {AllColumns \ {c} : c \in AllColumns}

\* the cells of a column the payload does not have are never read: one
\* representative value stands for them
AbsentCell == [regio1 |-> "Bayern", totalRent |-> NaN, livingSpace |-> NaN,
               balcony |-> FALSE]

RowsOver(rows, columns) ==
    {[c \in AllColumns |-> IF c \in columns THEN r[c] ELSE AbsentCell[c]] : r \in rows}

SeqsUpTo(S, n) == UNION {[1..m -> S] : m \in 0..n}

PayloadsOver(rows) ==
    UNION {{[columns |-> cs, rows |-> t] : t \in SeqsUpTo(RowsOver(rows, cs), MaxRows)}
           : cs \in ColumnSets}

FlowRows ==
    [regio1 : Regions, totalRent : FlowRents, livingSpace : FlowSpaces,
     balcony : BOOLEAN]
BinRows ==
    [regio1 : {"Bayern"}, totalRent : BinRents, livingSpace : {Num(40)},
     balcony : {FALSE}]
RatioRows ==
    [regio1 : {"Bayern"}, totalRent : RatioRents, livingSpace : RatioSpaces,
     balcony : {FALSE}]

-----------------------------------------------------------------------------
(* load_data, lines 19-38 *)

\* pd.cut with right=False: bins [0,500), [500,1000), [1000,1500), [1500,3000)
CutLeftInclusive(x) ==
    IF ~IsNum(x) THEN NaNCat
    ELSE LET hit == {i \in 1..Len(Labels) :
                        Leq(Num(Bins[i]), x) /\ Lt(x, Num(Bins[i + 1]))}
         IN  IF hit = {} THEN NaNCat ELSE Labels[CHOOSE i \in hit : TRUE]

\* pd.cut(..., bins, labels) with the default right=True: bins are
\* (0,500], (500,1000], (1000,1500], (1500,3000]; outside them, NaN
Cut(x) ==
    IF ~IsNum(x) THEN NaNCat
    ELSE LET hit == {i \in 1..Len(Labels) :
                        Lt(Num(Bins[i]), x) /\ Leq(x, Num(Bins[i + 1]))}
         IN  IF hit = {} THEN NaNCat ELSE Labels[CHOOSE i \in hit : TRUE]

\* the ceiling mask left out
RetainEveryRow(r) == TRUE

\* line 36: the ceiling mask
RetainRow(r) == Leq(r.totalRent, Num(RentCeiling))

WithCategory(r) ==
    [regio1 |-> r.regio1, totalRent |-> r.totalRent, livingSpace |-> r.livingSpace,
     balcony |-> r.balcony, price_category |-> Cut(r.totalRent)]

\* lines 29-38 on a parsed payload that has the totalRent column
LoadData(rows) ==
    SelectSeq([i \in 1..Len(rows) |-> WithCategory(rows[i])], RetainRow)

FetchOutcomes == {"ok", "transport_error", "http_error", "parse_error"}
Failures == {"transport_error", "http_error", "parse_error", "key_error"}

EmptyCache == [full |-> FALSE, value |-> <<>>]

\* load_data without the memoizing decorator
CacheStoreNothing(value) == EmptyCache

\* @st.cache_data: the entry stored when load_data returns
CacheStore(value) == [full |-> TRUE, value |-> value]

\* st.error without st.stop(): the script goes on
HandleLoadErrorNoStop(shown) == [pc |-> "selectors", rendered |-> Append(shown, "error")]

\* lines 44-46: st.error then st.stop()
HandleLoadError(shown) == [pc |-> "stopped", rendered |-> Append(shown, "error")]

-----------------------------------------------------------------------------
(* selectors, lines 52-57 *)

RECURSIVE SortedBy(_, _)
SortedBy(S, rank) ==
    IF S = {} THEN <<>>
    ELSE LET m == CHOOSE x \in S : \A y \in S : rank[x] <= rank[y]
         IN  <<m>> \o SortedBy(S \ {m}, rank)

Unique(t, c) == {t[i][c] : i \in 1..Len(t)}

\* sorted() of a list holding the float nan next to a str raises TypeError
SortRaises(S) == NaNCat \in S /\ Cardinality(S) >= 2

StateOptions(t) == <<"All States">> \o SortedBy(Unique(t, "regio1"), RegionRank)

SegmentOptions(t) ==
    LET u == Unique(t, "price_category")
    IN  <<"All Segments">> \o
        (IF u = {NaNCat} THEN <<NaNCat>>
         ELSE SortedBy(u, [c \in u |-> CategoryRank(c)]))

Range(s) == {s[i] : i \in 1..Len(s)}

-----------------------------------------------------------------------------
(* filter application, lines 60-64 *)

\* == on the categorical column: a null cell equals nothing
CatEq(a, b) == a # NaNCat /\ a = b

\* the segment mask taken from the unfiltered table and applied by position
FilterTableMisaligned(t, s, g) ==
    LET InState(r) == r.regio1 = s
        byState == IF s # "All States" THEN SelectSeq(t, InState) ELSE t
        kept == {i \in 1..Len(byState) : CatEq(t[i].price_category, g)}
        RECURSIVE Pick(_)
        Pick(i) == IF i > Len(byState) THEN <<>>
                   ELSE (IF i \in kept THEN <<byState[i]>> ELSE <<>>) \o Pick(i + 1)
    IN  IF g # "All Segments" THEN Pick(1) ELSE byState

FilterTable(t, s, g) ==
    LET InState(r) == r.regio1 = s
        InSegment(r) == CatEq(r.price_category, g)
        byState == IF s # "All States" THEN SelectSeq(t, InState) ELSE t
    IN  IF g # "All Segments" THEN SelectSeq(byState, InSegment) ELSE byState

\* the masks assigned back to df itself
ApplyFiltersInPlace(d, s, g) == [df |-> FilterTable(d, s, g), filtered_df |-> FilterTable(d, s, g)]

\* the script's names after lines 60-64
ApplyFilters(d, s, g) == [df |-> d, filtered_df |-> FilterTable(d, s, g)]

-----------------------------------------------------------------------------
(* metrics, lines 70-83 *)

RatioColumn(t) == [i \in 1..Len(t) |-> FDiv(t[i].totalRent, t[i].livingSpace)]

NoMetrics == [count |-> 0, avg_rent |-> NaN, avg_space |-> NaN, price_per_sqm |-> NaN]

Metrics(t) ==
    [count |-> Len(t),
     avg_rent |-> Mean(Column(t, "totalRent")),
     avg_space |-> Mean(Column(t, "livingSpace")),
     price_per_sqm |-> Mean(RatioColumn(t))]

-----------------------------------------------------------------------------
(* views, lines 88-194 *)

GroupRows(t, c) ==
    LET InGroup(r) == r.price_category = c
    IN  SelectSeq(t, InGroup)

SegmentRow(t, c) ==
    LET g == GroupRows(t, c)
    IN  [price_category |-> c,
         avg_rent |-> Round1(Mean(Column(g, "totalRent"))),
         count |-> Len(SelectSeq(Column(g, "totalRent"), NotNaN)),
         avg_space |-> Round1(Mean(Column(g, "livingSpace")))]

\* groupby(dropna=False): the rows of a null key form a group of their own
SegmentStatsKeepNull(t, obs) ==
    LET Kept(c) == obs => c \in Unique(t, "price_category")
        keys == SelectSeq(Labels, Kept) \o
                (IF NaNCat \in Unique(t, "price_category") THEN <<NaNCat>> ELSE <<>>)
    IN  [i \in 1..Len(keys) |-> SegmentRow(t, keys[i])]

\* lines 92-97: groupby on the categorical column drops the rows of a null
\* key; with observed=False every category of the dtype gets a row, with
\* observed=True only the categories that occur
SegmentStats(t, obs) ==
    LET Kept(c) == obs => c \in Unique(t, "price_category")
        keys == SelectSeq(Labels, Kept)
    IN  [i \in 1..Len(keys) |-> SegmentRow(t, keys[i])]

Min(a, b) == IF a <= b THEN a ELSE b

\* line 116
SampleSize(t) == Min(SampleCap, Len(t))

FNeg(a) == IF IsNaN(a) THEN a ELSE [a EXCEPT !.n = -a.n]

FMul(a, b) ==
    CASE IsNaN(a) \/ IsNaN(b) -> NaN
      [] a.k = "inf" \/ b.k = "inf" ->
            IF a.n = 0 \/ b.n = 0 THEN NaN
            ELSE IF (a.n > 0) = (b.n > 0) THEN PosInf ELSE NegInf
      [] OTHER -> Frac(a.n * b.n, a.d * b.d)

\* lines 158-167 for one amenity column of the table
AmenityResult(t, amenity) ==
    LET Has(r) == r[amenity] = TRUE
        HasNot(r) == r[amenity] = FALSE
        with_amenity == Mean(Column(SelectSeq(t, Has), "totalRent"))
        without_amenity == Mean(Column(SelectSeq(t, HasNot), "totalRent"))
    IN  IF Lt(Num(0), without_amenity)
        THEN <<[amenity |-> amenity,
                premium |-> FMul(FDiv(FAdd(with_amenity, FNeg(without_amenity)),
                                      without_amenity), Num(100)),
                prevalence |-> FMul(FDiv(Num(Len(SelectSeq(t, Has))), Num(Len(t))),
                                    Num(100))]>>
        ELSE <<>>

RECURSIVE AmenityLoop(_, _, _)
AmenityLoop(t, columns, i) ==
    IF i > Len(Amenities) THEN <<>>
    ELSE (IF Amenities[i] \in columns THEN AmenityResult(t, Amenities[i]) ELSE <<>>)
         \o AmenityLoop(t, columns, i + 1)

-----------------------------------------------------------------------------
(* the script run *)

Idle == {"done", "stopped", "raised"}

InitOver(payloads) ==
    /\ remote \in payloads
    /\ observed \in BOOLEAN
    /\ cache = EmptyCache
    /\ loaded = FALSE
    /\ pc = "load"
    /\ outcome = "pending"
    /\ attempts = 0
    /\ df = <<>>
    /\ states = <<>>
    /\ segments = <<>>
    /\ selected_state = "All States"
    /\ selected_segment = "All Segments"
    /\ filtered_df = <<>>
    /\ metrics = NoMetrics
    /\ segment_data = <<>>
    /\ sample_size = 0
    /\ amenity_results = <<>>
    /\ rendered = <<>>
    /\ raised = "none"

LaterLocals == <<states, segments, filtered_df, metrics, segment_data, sample_size,
                 amenity_results>>

\* line 42, load_data served from the memo: no fetch, no parse
LoadHit ==
    /\ pc = "load"
    /\ cache.full
    /\ df' = cache.value
    /\ outcome' = "hit"
    /\ rendered' = Append(rendered, "success")
    /\ pc' = "selectors"
    /\ UNCHANGED <<remote, observed, cache, loaded, attempts, selected_state,
                   selected_segment, LaterLocals, raised>>

\* lines 42-43, load_data runs and returns: the result is memoized
LoadOk ==
    /\ pc = "load"
    /\ ~cache.full
    /\ "totalRent" \in remote.columns
    /\ attempts' = attempts + 1
    /\ cache' = CacheStore(LoadData(remote.rows))
    /\ df' = LoadData(remote.rows)
    /\ loaded' = TRUE
    /\ outcome' = "ok"
    /\ rendered' = Append(rendered, "success")
    /\ pc' = "selectors"
    /\ UNCHANGED <<remote, observed, selected_state, selected_segment, LaterLocals,
                   raised>>

\* lines 42-46, load_data raises: requests.get, raise_for_status or read_csv
\* fails, or the parsed payload has no totalRent column (KeyError, line 33)
LoadFail ==
    /\ pc = "load"
    /\ ~cache.full
    /\ \E o \in FetchOutcomes :
          /\ o = "ok" => "totalRent" \notin remote.columns
          /\ outcome' = IF o = "ok" THEN "key_error" ELSE o
    /\ attempts' = attempts + 1
    /\ pc' = HandleLoadError(rendered).pc
    /\ rendered' = HandleLoadError(rendered).rendered
    /\ UNCHANGED <<remote, observed, cache, loaded, df, selected_state,
                   selected_segment, LaterLocals, raised>>

\* line 52 with no regio1 column: KeyError
SelectorsKeyError ==
    /\ pc = "selectors"
    /\ "regio1" \notin remote.columns
    /\ raised' = "KeyError"
    /\ pc' = "raised"
    /\ UNCHANGED <<remote, observed, cache, loaded, outcome, attempts, df,
                   selected_state, selected_segment, LaterLocals, rendered>>

\* lines 52-56 when sorted() of the categories raises
SelectorsTypeError ==
    /\ pc = "selectors"
    /\ "regio1" \in remote.columns
    /\ SortRaises(Unique(df, "price_category"))
    /\ states' = StateOptions(df)
    /\ rendered' = Append(rendered, "state_selector")
    /\ raised' = "TypeError"
    /\ pc' = "raised"
    /\ UNCHANGED <<remote, observed, cache, loaded, outcome, attempts, df,
                   selected_state, selected_segment, segments, filtered_df, metrics,
                   segment_data, sample_size, amenity_results>>

\* lines 52-57
Selectors ==
    /\ pc = "selectors"
    /\ "regio1" \in remote.columns
    /\ ~SortRaises(Unique(df, "price_category"))
    /\ states' = StateOptions(df)
    /\ segments' = SegmentOptions(df)
    /\ rendered' = rendered \o <<"state_selector", "segment_selector">>
    /\ pc' = "filter"
    /\ UNCHANGED <<remote, observed, cache, loaded, outcome, attempts, df,
                   selected_state, selected_segment, filtered_df, metrics,
                   segment_data, sample_size, amenity_results, raised>>

\* lines 60-64
Filter ==
    /\ pc = "filter"
    /\ df' = ApplyFilters(df, selected_state, selected_segment).df
    /\ filtered_df' = ApplyFilters(df, selected_state, selected_segment).filtered_df
    /\ pc' = "metrics"
    /\ UNCHANGED <<remote, observed, cache, loaded, outcome, attempts, states,
                   segments, selected_state, selected_segment, metrics, segment_data,
                   sample_size, amenity_results, rendered, raised>>

\* lines 70-78 with no livingSpace column: KeyError after two metrics
MetricsKeyError ==
    /\ pc = "metrics"
    /\ "livingSpace" \notin remote.columns
    /\ rendered' = rendered \o <<"metric_count", "metric_rent">>
    /\ raised' = "KeyError"
    /\ pc' = "raised"
    /\ UNCHANGED <<remote, observed, cache, loaded, outcome, attempts, df,
                   selected_state, selected_segment, LaterLocals>>

\* lines 70-83
MetricsPanel ==
    /\ pc = "metrics"
    /\ "livingSpace" \in remote.columns
    /\ metrics' = Metrics(filtered_df)
    /\ rendered' = rendered \o
                     <<"metric_count", "metric_rent", "metric_space", "metric_sqm">>
    /\ pc' = "views"
    /\ UNCHANGED <<remote, observed, cache, loaded, outcome, attempts, df, states,
                   segments, selected_state, selected_segment, filtered_df,
                   segment_data, sample_size, amenity_results, raised>>

\* lines 86-199
Views ==
    /\ pc = "views"
    /\ segment_data' = SegmentStats(filtered_df, observed)
    /\ sample_size' = SampleSize(filtered_df)
    /\ amenity_results' = AmenityLoop(filtered_df, remote.columns, 1)
    /\ rendered' = Append(rendered, "tabs")
    /\ pc' = "done"
    /\ UNCHANGED <<remote, observed, cache, loaded, outcome, attempts, df, states,
                   segments, selected_state, selected_segment, filtered_df, metrics,
                   raised>>

\* a new run starts from the top with fresh script names
StartRun ==
    /\ pc' = "load"
    /\ outcome' = "pending"
    /\ attempts' = 0
    /\ df' = <<>>
    /\ states' = <<>>
    /\ segments' = <<>>
    /\ filtered_df' = <<>>
    /\ metrics' = NoMetrics
    /\ segment_data' = <<>>
    /\ sample_size' = 0
    /\ amenity_results' = <<>>
    /\ rendered' = <<>>
    /\ raised' = "none"
    /\ UNCHANGED <<remote, observed, cache, loaded>>

\* the user picks another option of a selectbox this run displayed
SelectState ==
    /\ pc \in Idle
    /\ \E v \in Range(states) \ {selected_state} : selected_state' = v
    /\ UNCHANGED selected_segment
    /\ StartRun

SelectSegment ==
    /\ pc \in Idle
    /\ \E v \in Range(segments) \ {selected_segment} : selected_segment' = v
    /\ UNCHANGED selected_state
    /\ StartRun

\* the user reruns the page without changing a widget
Rerun ==
    /\ pc \in Idle
    /\ UNCHANGED <<selected_state, selected_segment>>
    /\ StartRun

Next ==
    \/ LoadHit
    \/ LoadOk
    \/ LoadFail
    \/ SelectorsKeyError
    \/ SelectorsTypeError
    \/ Selectors
    \/ Filter
    \/ MetricsKeyError
    \/ MetricsPanel
    \/ Views
    \/ SelectState
    \/ SelectSegment
    \/ Rerun

Init == InitOver(PayloadsOver(FlowRows))
InitBins == InitOver(PayloadsOver(BinRows))
InitRatios == InitOver(PayloadsOver(RatioRows))

Spec == Init /\ [][Next]_vars
SpecBins == InitBins /\ [][Next]_vars
SpecRatios == InitRatios /\ [][Next]_vars

-----------------------------------------------------------------------------
(* Properties *)

LoadSucceeded == outcome \in {"ok", "hit"}
Filtered ==
    pc \in {"metrics", "views", "done"} \/ (pc = "raised" /\ "metric_count" \in Range(rendered))
\* C1: after a successful load and any selector interactions, every row of
\* the loaded table and of every filtered subset has totalRent <= 3000.
C1_RentCeiling ==
    \A t \in {cache.value, df, filtered_df} :
        \A i \in 1..Len(t) :
            IsNum(t[i].totalRent) /\ t[i].totalRent.n <= 3000 * t[i].totalRent.d

\* C1 witness: the payload had a row over the ceiling and a row under it, and
\* a run after a segment selection finished with a non-empty subset.
C1_Witness ==
    /\ pc = "done"
    /\ outcome = "hit"
    /\ selected_segment # "All Segments"
    /\ filtered_df # <<>>
    /\ \E i \in 1..Len(remote.rows) : remote.rows[i].totalRent = Num(3001)
    /\ Len(cache.value) < Len(remote.rows)

\* C2 (as claimed): every row load_data retains has a non-null priceCategory.
C2_CategoryNeverNull ==
    cache.full => \A i \in 1..Len(cache.value) : cache.value[i].price_category # NaNCat

\* the bin of the claim: left-inclusive, [0,500) Budget ... [1500,3000) Premium
LeftBin(n) ==
    IF n < 500 THEN "Budget" ELSE IF n < 1000 THEN "Economy"
    ELSE IF n < 1500 THEN "Mid-Range" ELSE "Premium"

\* C3 (as claimed): priceCategory follows half-open, left-inclusive bins:
\* r < 500 Budget, 500 <= r < 1000 Economy, 1000 <= r < 1500 Mid-Range,
\* 1500 <= r < 3000 Premium, stated for 0 < r < 3000 (r = 0, where no
\* category is assigned at all, is the case of C2).
C3_LeftInclusiveBins ==
    cache.full =>
        \A i \in 1..Len(cache.value) :
            LET r == cache.value[i].totalRent
            IN  (r.d = 1 /\ 0 < r.n /\ r.n < 3000)
                    => cache.value[i].price_category = LeftBin(r.n)

\* the bin the code assigns: right-inclusive, (0,500] Budget ... (1500,3000]
\* Premium, and no category at or below 0
RightBin(n) ==
    IF n <= 0 THEN NaNCat
    ELSE IF n <= 500 THEN "Budget" ELSE IF n <= 1000 THEN "Economy"
    ELSE IF n <= 1500 THEN "Mid-Range" ELSE "Premium"

\* C3 (amended): priceCategory follows half-open, right-inclusive bins:
\* 0 < r <= 500 Budget, 500 < r <= 1000 Economy, 1000 < r <= 1500 Mid-Range,
\* 1500 < r <= 3000 Premium; a retained row with r <= 0 has no category.
C3_RightInclusiveBins ==
    cache.full =>
        \A i \in 1..Len(cache.value) :
            LET r == cache.value[i].totalRent
            IN  r.d = 1 /\ cache.value[i].price_category = RightBin(r.n)

\* C3 witness: rows at the boundaries 500 and 1500 were loaded and binned.
C3_Witness ==
    /\ cache.full
    /\ \E i, j \in 1..Len(cache.value) :
          /\ cache.value[i].totalRent = Num(500)
          /\ cache.value[i].price_category = "Budget"
          /\ cache.value[j].totalRent = Num(1500)
          /\ cache.value[j].price_category = "Mid-Range"

LaterElements ==
    {"state_selector", "segment_selector", "metric_count", "metric_rent",
     "metric_space", "metric_sqm", "tabs"}

\* an uncaught exception is displayed by the framework in place of the rest
FailureVisible == "error" \in Range(rendered) \/ pc = "raised"

\* C4 (as claimed): in a run where the load fails, a required column absent
\* when accessed included, the failure is shown, none of the later steps
\* (selectors, filter, metrics, views) executes and the load is not retried.
C4_AnyFailureHaltsBeforeSelectors ==
    (outcome \in Failures \/ raised = "KeyError") =>
        /\ FailureVisible
        /\ Range(rendered) \cap LaterElements = {}
        /\ attempts <= 1

\* C4 (amended): in a run where load_data raises (transport error, HTTP
\* status, unparseable payload or no totalRent column) the error is shown
\* with st.error, nothing after the load executes and exactly one fetch was
\* made; a KeyError for a column read after the load (regio1, livingSpace)
\* comes in a run whose load succeeded, after the steps before that read.
C4_LoadErrorStopsRun ==
    /\ outcome \in Failures =>
          /\ pc = "stopped"
          /\ rendered = <<"error">>
          /\ attempts = 1
          /\ ~cache.full
          /\ LaterLocals = <<<<>>, <<>>, <<>>, NoMetrics, <<>>, 0, <<>>>>
    /\ pc = "stopped" => outcome \in Failures
    /\ raised = "KeyError" =>
          /\ LoadSucceeded
          /\ Head(rendered) = "success"
          /\ "error" \notin Range(rendered)
          /\ RequiredColumns \ remote.columns # {}

\* C4 witness: a run ended by a non-success HTTP status.
C4_Witness == pc = "stopped" /\ outcome = "http_error" /\ rendered = <<"error">>

\* C5: once load_data has returned, no later step fetches or parses again;
\* the load step of every later run takes the memoized table.
C5_NoFetchAfterLoad ==
    [][loaded =>
          /\ attempts' <= attempts
          /\ cache' = cache
          /\ pc = "load" => (outcome' = "hit" /\ df' = cache.value)]_vars

\* C5 witness: a rerun after the first successful run finished from the memo
\* with a selection the first run cannot have had.
C5_Witness ==
    /\ pc = "done"
    /\ outcome = "hit"
    /\ attempts = 0
    /\ selected_state # "All States"

\* C6: every step after the load leaves the memoized table unchanged, and the
\* script's df stays that table; the filter only derives filtered_df.
C6_LoadedTableImmutable ==
    [][cache.full =>
          /\ cache' = cache
          /\ pc' \in {"selectors", "filter", "metrics", "views", "done", "raised"}
                => df' = cache.value]_vars

\* C6 witness: a rerun whose filter removed rows has finished.
C6_Witness ==
    /\ pc = "done"
    /\ outcome = "hit"
    /\ Len(filtered_df) < Len(df)
    /\ df = cache.value

\* C7: filtering the filtered table again with the same selector values
\* gives the identical table.
C7_FilterIdempotent ==
    Filtered => FilterTable(filtered_df, selected_state, selected_segment) = filtered_df

\* C7 witness: both predicates were applied and removed some rows, not all.
C7_Witness ==
    /\ pc = "done"
    /\ selected_state # "All States"
    /\ selected_segment # "All Segments"
    /\ filtered_df # <<>>
    /\ Len(filtered_df) < Len(df)

\* the mean of the claim: over exactly the rows with a non-zero, non-missing
\* livingSpace
MeanOverDefinedRatios(t) ==
    LET Defined(r) == IsNum(r.livingSpace) /\ r.livingSpace.n # 0
    IN  Mean(RatioColumn(SelectSeq(t, Defined)))

\* C8 (as claimed): avgPricePerArea is the mean of totalRent / livingSpace
\* over exactly the rows whose livingSpace is neither zero nor missing.
C8_ZeroSpaceExcluded ==
    pc \in {"views", "done"} => metrics.price_per_sqm = MeanOverDefinedRatios(filtered_df)

PresentCategories(t) == Unique(t, "price_category") \ {NaNCat}

\* C9 (as claimed): segmentStats has exactly one row per distinct price
\* category present in the filtered table and none for an absent category
\* (stated for a filtered table in which some category is present).
C9_OneRowPerPresentCategory ==
    (pc = "done" /\ PresentCategories(filtered_df) # {}) =>
        /\ Len(segment_data) = Cardinality(PresentCategories(filtered_df))
        /\ {segment_data[i].price_category : i \in 1..Len(segment_data)}
              = PresentCategories(filtered_df)

CategoriesOf(sd) == {sd[i].price_category : i \in 1..Len(sd)}

\* C9 (amended): segmentStats never has more than 4 rows and at most one row
\* per price category: one row, counting its rows, for every category present
\* in the filtered table, and, when the grouping keeps the unobserved
\* categories of the column (observed=False), also a row with count 0 and
\* undefined means for each of the four categories that is absent.
C9_AtMostOneRowPerCategory ==
    pc = "done" =>
        /\ Len(segment_data) <= 4
        /\ \A i, j \in 1..Len(segment_data) :
              i # j => segment_data[i].price_category # segment_data[j].price_category
        /\ CategoriesOf(segment_data) \subseteq Range(Labels)
        /\ PresentCategories(filtered_df) \subseteq CategoriesOf(segment_data)
        /\ \A i \in 1..Len(segment_data) :
              /\ segment_data[i].count =
                    Cardinality({k \in 1..Len(filtered_df) :
                        filtered_df[k].price_category = segment_data[i].price_category})
              /\ segment_data[i].count = 0 =>
                    IsNaN(segment_data[i].avg_rent) /\ IsNaN(segment_data[i].avg_space)
        /\ observed => CategoriesOf(segment_data) = PresentCategories(filtered_df)
        /\ ~observed => Len(segment_data) = 4

\* C9 witness: a non-empty filtered table was grouped with observed=False and
\* the result has a row for a present and a row for an absent category.
C9_Witness ==
    /\ pc = "done"
    /\ ~observed
    /\ filtered_df # <<>>
    /\ \E i, j \in 1..Len(segment_data) :
          segment_data[i].count > 0 /\ segment_data[j].count = 0

\* C10 (as claimed): after a successful load of a payload with the required
\* columns, no run raises, whatever the table and the selector values.
C10_RerunNeverRaises ==
    (LoadSucceeded /\ RequiredColumns \subseteq remote.columns) => raised = "none"
====
